---- MODULE Spec2Model ----
(***************************************************************************)
(* Project Lifecycle Orchestrator of the video/audio transcriber.          *)
(*                                                                         *)
(* src/App.tsx holds three successive revisions of the App component       *)
(* (lines 1-269, 272-947 and 950-1254).  The variable `version` selects    *)
(* the revision a behaviour runs ("v1", "v2", "v3"); every handler is      *)
(* translated per revision.  src/services/geminiService.ts holds the       *)
(* Inference Gateway adapter (analyzeVideo) and the IndexedDB service      *)
(* (cache and project store).                                              *)
(*                                                                         *)
(* One step of the model is one synchronous stretch of JavaScript: a UI    *)
(* handler up to its first await, or the continuation of an await.         *)
(* Durations are counted in tenths of a second.                            *)
(***************************************************************************)
EXTENDS Integers, Sequences, FiniteSets, TLC

VARIABLES
  version,          \* revision of App.tsx this behaviour runs
  projects,         \* useState<VideoProject[]>: the in-memory collection
  abortControllers, \* useRef(Map<string, AbortController>): id -> run owning the controller
  runs,             \* one record per startAnalysis invocation
  store,            \* IndexedDB object store 'projects': id -> record
  cache,            \* IndexedDB object store 'transcripts': key -> data
  isLoadingDB,      \* useState(true): the startup load has not finished
  nextId,           \* number of project ids handed out so far
  nextRun,          \* number of startAnalysis invocations so far
  reloads,          \* number of page reloads so far
  lastNotification, \* the notification emitted last
  activeProjectId,  \* useState<string | null>: the project shown in the detail view (0: null)
  chatMessages,     \* useState<ChatMessage[]> of v2: the messages the chat panel shows
  isChatLoading,    \* useState(false): a chat turn is outstanding
  chat,             \* the handleChatMessage invocation that is outstanding, if any
  chatLog,          \* history: for every chat turn sent, its project and its outcome
  clearAll,         \* the handleClearAll invocation that is outstanding, if any
  keyed,            \* the calls of generateCacheKey made: arguments, key, and what a lookup after a write finds
  analysed          \* the response analyzeVideo enriched last: the items it returns

chatVars == <<activeProjectId, chatMessages, isChatLoading, chat, chatLog>>

clearVars == <<clearAll>>

(* The service functions checked on their own *)
fnVars == <<keyed, analysed>>

vars == <<version, projects, abortControllers, runs, store, cache, isLoadingDB,
          nextId, nextRun, reloads, lastNotification, chatVars, clearVars, fnVars>>

----------------------------------------------------------------------------
(* Bounds *)
MaxProjects == 2
MaxRuns == 3
MaxReloads == 1
MaxTurns == 2
MaxChatRuns == 2
MaxTickRuns == 2
MaxTickedPercent == 62
MaxFaultRuns == 2
MaxKeyed == 2
MaxClearRuns == 2

(* Program constants *)
MAX_FILE_SIZE == 52428800

Versions == {"v1", "v2", "v3"}

(* JavaScript undefined, for string-valued and number-valued fields *)
Undefined == "undefined"
UndefNum == 0 - 1
NoData == "nodata"

(* The files a user can pick (the same file can be picked twice): one below
   and one above the size ceiling of v3.  v1 and v2 have no ceiling and treat
   a large file as any other, so one file is enough there. *)
Files == {"f1", "f3"}
FileName(f) == IF f = "f3" THEN "big.mp4" ELSE "clip.mp4"
FileSize(f) == IF f = "f3" THEN 60000000 ELSE 10000000

(* What the duration probe can resolve to: 0 on failure, else the duration *)
Durations == {0, 424}

(* What Date.now() - startTime can be *)
ElapsedTimes == {1500}

(* The structured analysis the gateway returns *)
Results == {"analysis"}

(* Values thrown at the orchestrator: name and message of the error *)
GatewayError == [name |-> "Error", message |-> "No response from Gemini"]
AbortError == [name |-> "AbortError", message |-> "Aborted"]
ReadError == [name |-> Undefined, message |-> Undefined]
(* request.error of a failed IndexedDB request *)
StoreError == [name |-> "UnknownError", message |-> "IndexedDB request failed"]

EmptyFn == [i \in {} |-> 0]

Ids == 1..MaxProjects
RunIds == 1..MaxRuns

----------------------------------------------------------------------------
(* Helpers on the collection and the stores *)

(* progress is a number of percent that the progress timer of v2 moves in
   steps of 1, 0.5, 0.2 and 0.05: it is kept in hundredths of a percent *)
Pct(n) == n * 100

Truthy(n) == n # UndefNum /\ n # 0

Has(ps, id) == \E i \in 1..Len(ps) : ps[i].id = id

Find(ps, id) == ps[CHOOSE i \in 1..Len(ps) : ps[i].id = id]

MapById(ps, id, new) == [i \in 1..Len(ps) |-> IF ps[i].id = id THEN new ELSE ps[i]]

Merge(p, updates) ==
  [f \in DOMAIN p |-> IF f \in DOMAIN updates THEN updates[f] ELSE p[f]]

(* A merge that takes the id for a position in the array (mutant) *)
MergeByIndex(ps, id, updates) ==
  [i \in 1..Len(ps) |-> IF i = id THEN Merge(ps[i], updates) ELSE ps[i]]

MergeById(ps, id, updates) ==
  [i \in 1..Len(ps) |-> IF ps[i].id = id THEN Merge(ps[i], updates) ELSE ps[i]]

Filter(ps, id) == SelectSeq(ps, LAMBDA p : p.id # id)

Put(f, k, v) == [x \in (DOMAIN f) \cup {k} |-> IF x = k THEN v ELSE f[x]]

Remove(f, k) == [x \in (DOMAIN f) \ {k} |-> f[x]]

saveProject(st, project) == Put(st, project.id, project)

deleteProjectFromDB(st, id) == Remove(st, id)

(* Rounding towards zero (mutant) *)
RoundDown(tenths) == tenths \div 10

(* Math.round of a non-negative number given in tenths *)
Round(tenths) == (tenths + 5) \div 10

(* `${fileName}_${fileSize}_${Math.round(duration)}` *)
generateCacheKey(fileName, fileSize, duration) ==
  fileName \o "_" \o ToString(fileSize) \o "_" \o ToString(Round(duration))

getCachedTranscript(c, fileName, fileSize, duration) ==
  LET key == generateCacheKey(fileName, fileSize, duration)
  IN IF key \in DOMAIN c THEN c[key] ELSE NoData

cacheTranscript(c, fileName, fileSize, duration, data) ==
  Put(c, generateCacheKey(fileName, fileSize, duration), data)

(* updateProjectState (v3): merge by id, then save the merged record if found *)
UpdatedProjects(ps, id, updates) == MergeById(ps, id, updates)

UpdatedStore(ps, st, id, updates) ==
  IF Has(ps, id) THEN saveProject(st, Find(MergeById(ps, id, updates), id)) ELSE st

----------------------------------------------------------------------------
(* Runs *)

NoProject ==
  [id |-> 0, file |-> "none", fileName |-> "", fileSize |-> 0, duration |-> UndefNum,
   status |-> "none", progress |-> UndefNum, data |-> NoData, error |-> Undefined,
   processingTime |-> UndefNum, chatHistory |-> <<>>, createdAt |-> 0]

(* A startAnalysis invocation: its argument, its position, its controller's
   signal, the percentage its FileReader last reported, its locals (result,
   endTime - startTime), and two history fields: whether it called the
   gateway and which transition it applied at its end *)
IdleRun == [pid |-> 0, project |-> NoProject, pc |-> "idle", aborted |-> FALSE,
            loaded |-> 0, result |-> NoData, elapsed |-> UndefNum,
            called |-> FALSE, outcome |-> "none"]

Live(r) == runs[r].pc \in {"cacheGet", "read", "gateway", "cachePut"}

(* The record of a run that is over: its argument, its locals and its
   controller are garbage; what stays is history: whether it called the
   gateway, and the transition it applied ("cancelled": the Cancel transition
   with its token signaled, "aborted": the Cancel transition although nobody
   signaled its token) *)
Ended(r, pc, outcome) ==
  [IdleRun EXCEPT !.pid = runs[r].pid, !.called = runs[r].called, !.pc = pc,
                  !.outcome = IF outcome = "cancelled" /\ ~runs[r].aborted
                                THEN "aborted" ELSE outcome]

StartedRuns == 1..nextRun

(* The runs started for project id, and the latest of them *)
RunsOf(id) == {r \in StartedRuns : runs[r].pid = id}

CurrentRun(id) == CHOOSE r \in RunsOf(id) : \A q \in RunsOf(id) : q <= r

SetRun(r, rec) == [runs EXCEPT ![r] = rec]

(* UI guards: which buttons the views render for a project *)
CanStop(p) == p.status = "processing"

CanRetry(p) ==
  IF version = "v2" THEN p.status \in {"failed", "cancelled"} ELSE p.status = "failed"

CanCancel(p) == p.status \notin {"completed", "failed"}

(* null of activeProjectId *)
NoActive == 0

(* No handleClearAll outstanding; rest: the ids of its `projects` still to
   be deleted from the store *)
IdleClear == [pc |-> "idle", rest |-> <<>>]

(* No response enriched yet *)
NoAnalysis == [transcript |-> <<>>, chapters |-> <<>>]

(* A handleChatMessage invocation: the activeProject and updatedHistory it
   closed over, the number of its turn, and its position *)
IdleChat == [pc |-> "idle", project |-> NoProject, history |-> <<>>, turn |-> 0]

----------------------------------------------------------------------------
(* Init: a fresh browser profile, App mounted, startup load pending *)

Init ==
  /\ version \in Versions
  /\ projects = <<>>
  /\ abortControllers = EmptyFn
  /\ runs = [r \in RunIds |-> IdleRun]
  /\ store = EmptyFn
  /\ cache = EmptyFn
  /\ isLoadingDB = TRUE
  /\ nextId = 0
  /\ nextRun = 0
  /\ reloads = 0
  /\ lastNotification = "none"
  /\ activeProjectId = NoActive
  /\ chatMessages = <<>>
  /\ isChatLoading = FALSE
  /\ chat = IdleChat
  /\ chatLog = <<>>
  /\ clearAll = IdleClear
  /\ keyed = <<>>
  /\ analysed = NoAnalysis

----------------------------------------------------------------------------
(* Startup load *)

InterruptedReason ==
  CASE version = "v1" -> "Analysis interrupted"
    [] version = "v2" -> "Analysis interrupted by page reload"
    [] OTHER -> "Session interrupted"

IsInterrupted(p) ==
  IF version = "v3" THEN p.status \in {"processing", "queued"} ELSE p.status = "processing"

(* A hydration that also resets the progress of every record (mutant) *)
HydrateResetsProgress(p) ==
  IF IsInterrupted(p)
    THEN [p EXCEPT !.status = "failed", !.error = InterruptedReason, !.progress = 0]
    ELSE [p EXCEPT !.progress = 0]

Hydrate(p) ==
  IF IsInterrupted(p)
    THEN [p EXCEPT !.status = "failed", !.error = InterruptedReason]
    ELSE p

(* getAllProjects: every stored record, newest first *)
RECURSIVE SortedByRecency(_)
SortedByRecency(ids) ==
  IF ids = {} THEN <<>>
  ELSE LET newest == CHOOSE i \in ids : \A j \in ids : store[j].createdAt <= store[i].createdAt
       IN <<store[newest]>> \o SortedByRecency(ids \ {newest})

getAllProjects == SortedByRecency(DOMAIN store)

(* A load that corrects the records in memory only *)
loadProjectsWithoutSave ==
  /\ isLoadingDB
  /\ LET savedProjects == getAllProjects
     IN projects' = [i \in 1..Len(savedProjects) |-> Hydrate(savedProjects[i])]
  /\ isLoadingDB' = FALSE
  /\ UNCHANGED <<clearVars, fnVars, chatVars, version, abortControllers, runs, store, cache, nextId, nextRun, reloads,
                 lastNotification>>

loadProjects ==
  /\ isLoadingDB
  /\ LET savedProjects == getAllProjects
         hydratedProjects == [i \in 1..Len(savedProjects) |-> Hydrate(savedProjects[i])]
     IN /\ projects' = hydratedProjects
        /\ store' = [i \in DOMAIN store |-> Hydrate(store[i])]
  /\ isLoadingDB' = FALSE
  /\ UNCHANGED <<clearVars, fnVars, chatVars, version, abortControllers, runs, cache, nextId, nextRun, reloads,
                 lastNotification>>

----------------------------------------------------------------------------
(* startAnalysis, synchronous part: the run record it creates, and what it
   does to the collection and the store before its first await *)

FirstPc(project) ==
  CASE version = "v1" -> IF Truthy(project.duration) THEN "cacheGet" ELSE "read"
    [] version = "v2" -> IF Truthy(project.duration) /\ project.duration > 0
                           THEN "cacheGet" ELSE "read"
    [] OTHER -> "read"

NewRun(project) ==
  [pid |-> project.id, project |-> project, pc |-> FirstPc(project), aborted |-> FALSE,
   loaded |-> 0, result |-> NoData, elapsed |-> UndefNum, called |-> FALSE, outcome |-> "none"]

StartProjects(ps, project) ==
  IF version = "v3" THEN UpdatedProjects(ps, project.id, [progress |-> Pct(20)]) ELSE ps

StartStore(ps, st, project) ==
  CASE version = "v1" -> st
    [] version = "v2" -> saveProject(st, project)
    [] OTHER -> UpdatedStore(ps, st, project.id, [progress |-> Pct(20)])

----------------------------------------------------------------------------
(* handleFileSelect *)

InitialProgress ==
  CASE version = "v1" -> Pct(10)
    [] version = "v2" -> 0
    [] OTHER -> Pct(5)

NewProject(f, d) ==
  [id |-> nextId + 1, file |-> f, fileName |-> FileName(f), fileSize |-> FileSize(f),
   duration |-> IF version = "v1" THEN UndefNum ELSE d,
   status |-> "processing", progress |-> InitialProgress, data |-> NoData,
   error |-> Undefined, processingTime |-> UndefNum, chatHistory |-> <<>>,
   createdAt |-> nextId + 1]

Pickable == IF version = "v3" THEN Files ELSE {"f1"}

(* A size check that compares kilobytes with the ceiling in bytes *)
TooLargeInKilobytes(f) == version = "v3" /\ FileSize(f) \div 1024 > MAX_FILE_SIZE

TooLarge(f) == version = "v3" /\ FileSize(f) > MAX_FILE_SIZE

handleFileSelectRejected(f) ==
  /\ ~isLoadingDB
  /\ activeProjectId = NoActive
  /\ TooLarge(f)
  /\ lastNotification' = "error: file too large"
  /\ UNCHANGED <<clearVars, fnVars, chatVars, version, projects, abortControllers, runs, store, cache, isLoadingDB,
                 nextId, nextRun, reloads>>

handleFileSelect(f, d) ==
  /\ ~isLoadingDB
  /\ activeProjectId = NoActive
  /\ ~TooLarge(f)
  /\ nextId < MaxProjects
  /\ nextRun < MaxRuns
  /\ LET newProject == NewProject(f, d)
         added == <<newProject>> \o projects
         saved == IF version = "v3" THEN saveProject(store, newProject) ELSE store
     IN /\ projects' = StartProjects(added, newProject)
        /\ store' = StartStore(added, saved, newProject)
        /\ runs' = SetRun(nextRun + 1, NewRun(newProject))
        /\ abortControllers' = Put(abortControllers, newProject.id, nextRun + 1)
  /\ nextId' = nextId + 1
  /\ nextRun' = nextRun + 1
  /\ UNCHANGED <<clearVars, fnVars, chatVars, version, cache, isLoadingDB, reloads, lastNotification>>

----------------------------------------------------------------------------
(* analyzeVideo: what the call settles with, given the signal and what the
   SDK request did ("ok": a response, "error": it threw, "abort": it threw
   an AbortError DOMException).  NoError means the parsed result is returned. *)

NoError == [name |-> "none", message |-> "none"]

GatewayResponses == {"ok", "error", "abort"}

(* analyzeVideo without the signal checks after the request (mutant) *)
analyzeVideoNoRecheck(aborted, response) ==
  CASE response = "ok" -> NoError
    [] response = "error" -> GatewayError
    [] OTHER -> AbortError

analyzeVideo(aborted, response) ==
  CASE response = "ok" -> IF aborted THEN AbortError ELSE NoError
    [] response = "error" -> IF aborted THEN AbortError ELSE GatewayError
    [] OTHER -> AbortError

----------------------------------------------------------------------------
(* startAnalysis: the Complete transition *)

(* A cache hit that completes the project without setting processingTime
   (mutant) *)
CompletedFromCacheUntimed(project, data) ==
  [project EXCEPT !.status = "completed", !.data = data, !.progress = Pct(100)]

CompletedFromCache(project, data) ==
  IF version = "v1"
    THEN [project EXCEPT !.status = "completed", !.data = data, !.progress = Pct(100)]
    ELSE [project EXCEPT !.status = "completed", !.data = data, !.processingTime = 0,
                         !.progress = Pct(100)]

CompletedProject(project, result, elapsed) ==
  IF version = "v1"
    THEN [project EXCEPT !.status = "completed", !.data = result, !.progress = Pct(100),
                         !.chatHistory = <<>>]
    ELSE [project EXCEPT !.status = "completed", !.data = result,
                         !.processingTime = elapsed, !.progress = Pct(100),
                         !.chatHistory = <<>>]

completedUpdates(result, elapsed) ==
  [status |-> "completed", data |-> result, progress |-> Pct(100),
   processingTime |-> elapsed, chatHistory |-> <<>>]

CompleteProjects(ps, project, result, elapsed) ==
  IF version = "v3"
    THEN UpdatedProjects(ps, project.id, completedUpdates(result, elapsed))
    ELSE MapById(ps, project.id, CompletedProject(project, result, elapsed))

CompleteStore(ps, st, project, result, elapsed) ==
  IF version = "v3"
    THEN UpdatedStore(ps, st, project.id, completedUpdates(result, elapsed))
    ELSE saveProject(st, CompletedProject(project, result, elapsed))

----------------------------------------------------------------------------
(* startAnalysis: the catch block *)

IsAbort(e) ==
  IF version = "v2"
    THEN e.name = "AbortError" \/ e.message = "Aborted"
    ELSE e.name = "AbortError"

CatchUpdates(e) ==
  CASE version = "v2" /\ IsAbort(e) -> [status |-> "cancelled", progress |-> 0]
    [] version = "v2" -> [status |-> "failed", error |-> e.message, progress |-> 0]
    [] version = "v3" /\ IsAbort(e) ->
         [status |-> "failed", error |-> "Transcription cancelled", progress |-> 0]
    [] OTHER -> [status |-> "failed", error |-> e.message, progress |-> 0]

CatchProjects(ps, project, e) ==
  CASE version = "v1" ->
         IF IsAbort(e) THEN ps
         ELSE MapById(ps, project.id, [project EXCEPT !.status = "failed", !.error = e.message])
    [] OTHER -> MergeById(ps, project.id, CatchUpdates(e))

CatchStore(ps, st, project, e) ==
  CASE version = "v1" ->
         IF IsAbort(e) THEN st
         ELSE saveProject(st, [project EXCEPT !.status = "failed", !.error = e.message])
    [] OTHER -> UpdatedStore(ps, st, project.id, CatchUpdates(e))

CatchNotification(e) ==
  CASE version = "v1" -> IF IsAbort(e) THEN lastNotification ELSE "error: failed"
    [] IsAbort(e) -> "error: cancelled"
    [] OTHER -> "error: failed"

CatchOutcome(e) ==
  CASE version = "v1" /\ IsAbort(e) -> "ignored"
    [] IsAbort(e) -> "cancelled"
    [] OTHER -> "failed"

(* finally { abortControllers.current.delete(project.id) }; v1 has no finally *)
Finally(ctl, id) == IF version = "v1" THEN ctl ELSE Remove(ctl, id)

(* The run r ends: its last writes ps, st, the notification and the outcome *)
Finish(r, ps, st, note, outcome) ==
  /\ projects' = ps
  /\ store' = st
  /\ lastNotification' = note
  /\ runs' = SetRun(r, Ended(r, "done", outcome))
  /\ abortControllers' = Finally(abortControllers, runs[r].pid)

Throw(r, ps, st, e) ==
  LET project == runs[r].project
  IN Finish(r, CatchProjects(ps, project, e), CatchStore(ps, st, project, e),
            CatchNotification(e), CatchOutcome(e))

----------------------------------------------------------------------------
(* startAnalysis: the continuations of its awaits *)

(* await getCachedTranscript(...) resolves *)
CacheGetReturns(r) ==
  /\ runs[r].pc = "cacheGet"
  /\ LET project == runs[r].project
         cached == getCachedTranscript(cache, project.fileName, project.fileSize,
                                       project.duration)
         completed == CompletedFromCache(project, cached)
     IN IF cached # NoData
          THEN Finish(r, MapById(projects, project.id, completed),
                      saveProject(store, completed), "success: restored from cache",
                      "cached")
          ELSE /\ runs' = SetRun(r, [runs[r] EXCEPT !.pc = "read"])
               /\ UNCHANGED <<clearVars, fnVars, projects, store, lastNotification, abortControllers>>
  /\ UNCHANGED <<clearVars, fnVars, chatVars, version, cache, isLoadingDB, nextId, nextRun, reloads>>

(* What the stretch after the payload read does to the collection and the
   store before it calls analyzeVideo *)
AfterReadProjects(ps, id) ==
  CASE version = "v2" -> MergeById(ps, id, [progress |-> Pct(30)])
    [] version = "v3" -> UpdatedProjects(ps, id, [progress |-> Pct(45)])
    [] OTHER -> ps

AfterReadStore(ps, st, id) ==
  IF version = "v3" THEN UpdatedStore(ps, st, id, [progress |-> Pct(45)]) ELSE st

(* await of the FileReader promise settles: the payload was read, or the
   reader raised its error event *)
ReadReturns(r, readOk) ==
  /\ runs[r].pc = "read"
  /\ LET id == runs[r].pid
         ps == AfterReadProjects(projects, id)
         st == AfterReadStore(projects, store, id)
     IN IF ~readOk
          THEN Throw(r, projects, store, ReadError)
          ELSE IF runs[r].aborted
            THEN Throw(r, ps, st, AbortError)
            ELSE /\ projects' = ps
                 /\ store' = st
                 /\ runs' = SetRun(r, [runs[r] EXCEPT !.pc = "gateway", !.called = TRUE])
                 /\ UNCHANGED <<clearVars, fnVars, lastNotification, abortControllers>>
  /\ UNCHANGED <<clearVars, fnVars, chatVars, version, cache, isLoadingDB, nextId, nextRun, reloads>>

(* The cache written whatever the duration (mutant) *)
WritesCacheAnyDuration(project) == version # "v3"

(* Whether the stretch after analyzeVideo awaits cacheTranscript *)
WritesCache(project) == version # "v3" /\ Truthy(project.duration)

BeforeCompleteProjects(ps, id) ==
  IF version = "v3" THEN UpdatedProjects(ps, id, [progress |-> Pct(90)]) ELSE ps

BeforeCompleteStore(ps, st, id) ==
  IF version = "v3" THEN UpdatedStore(ps, st, id, [progress |-> Pct(90)]) ELSE st

Complete(r, ps, st, result, elapsed) ==
  LET project == runs[r].project
  IN Finish(r, CompleteProjects(ps, project, result, elapsed),
            CompleteStore(ps, st, project, result, elapsed),
            "success: complete", "completed")

(* await analyzeVideo(...) settles *)
GatewayReturns(r, response, result, elapsed) ==
  /\ runs[r].pc = "gateway"
  /\ LET project == runs[r].project
         e == analyzeVideo(runs[r].aborted, response)
         ps == BeforeCompleteProjects(projects, project.id)
         st == BeforeCompleteStore(projects, store, project.id)
     IN IF e # NoError
          THEN Throw(r, projects, store, e)
          ELSE IF WritesCache(project)
            THEN /\ runs' = SetRun(r, [runs[r] EXCEPT !.pc = "cachePut",
                                                     !.result = result,
                                                     !.elapsed = elapsed])
                 /\ UNCHANGED <<clearVars, fnVars, projects, store, lastNotification, abortControllers>>
            ELSE Complete(r, ps, st, result, elapsed)
  /\ UNCHANGED <<clearVars, fnVars, chatVars, version, cache, isLoadingDB, nextId, nextRun, reloads>>

(* await cacheTranscript(...) resolves: the entry is in the cache *)
CachePutReturns(r) ==
  /\ runs[r].pc = "cachePut"
  /\ LET project == runs[r].project
     IN /\ cache' = cacheTranscript(cache, project.fileName, project.fileSize,
                                    project.duration, runs[r].result)
        /\ Complete(r, projects, store, runs[r].result, runs[r].elapsed)
  /\ UNCHANGED <<clearVars, fnVars, chatVars, version, isLoadingDB, nextId, nextRun, reloads>>

----------------------------------------------------------------------------
(* UI handlers *)

Abort(rs, ctl, id) ==
  IF id \in DOMAIN ctl THEN [rs EXCEPT ![ctl[id]].aborted = TRUE] ELSE rs

(* A stop that resets the progress but leaves the status as it was *)
StopUpdatesKeepStatus == [progress |-> 0]

StopUpdates == [status |-> "cancelled", progress |-> 0]

(* handleStop (v2): abort and drop the controller, mark the project cancelled *)
handleStop(id) ==
  /\ ~isLoadingDB
  /\ activeProjectId = NoActive
  /\ version = "v2"
  /\ Has(projects, id)
  /\ CanStop(Find(projects, id))
  /\ runs' = Abort(runs, abortControllers, id)
  /\ abortControllers' = Remove(abortControllers, id)
  /\ projects' = MergeById(projects, id, StopUpdates)
  /\ store' = UpdatedStore(projects, store, id, StopUpdates)
  /\ UNCHANGED <<clearVars, fnVars, chatVars, version, cache, isLoadingDB, nextId, nextRun, reloads, lastNotification>>

(* handleCancel (v3): abort the controller registered under the id, if any *)
handleCancel(id) ==
  /\ ~isLoadingDB
  /\ activeProjectId = NoActive
  /\ version = "v3"
  /\ Has(projects, id)
  /\ CanCancel(Find(projects, id))
  /\ runs' = Abort(runs, abortControllers, id)
  /\ UNCHANGED <<clearVars, fnVars, chatVars, version, projects, abortControllers, store, cache, isLoadingDB,
                 nextId, nextRun, reloads, lastNotification>>

RetryUpdates ==
  IF version = "v2"
    THEN [status |-> "processing", error |-> Undefined, processingTime |-> UndefNum,
          progress |-> 0]
    ELSE [status |-> "processing", progress |-> Pct(5), error |-> Undefined]

(* The project handed to startAnalysis by handleRetry *)
RetryArgument(project) ==
  IF version = "v2" THEN project ELSE [project EXCEPT !.status = "processing"]

handleRetry(id) ==
  /\ ~isLoadingDB
  /\ activeProjectId = NoActive
  /\ version \in {"v2", "v3"}
  /\ Has(projects, id)
  /\ CanRetry(Find(projects, id))
  /\ nextRun < MaxRuns
  /\ LET project == Find(projects, id)
         arg == RetryArgument(project)
         ps == IF version = "v2" THEN MergeById(projects, id, RetryUpdates)
               ELSE UpdatedProjects(projects, id, RetryUpdates)
         st == IF version = "v2" THEN store
               ELSE UpdatedStore(projects, store, id, RetryUpdates)
     IN /\ projects' = StartProjects(ps, arg)
        /\ store' = StartStore(ps, st, arg)
        /\ runs' = SetRun(nextRun + 1, NewRun(arg))
        /\ abortControllers' = Put(abortControllers, id, nextRun + 1)
  /\ nextRun' = nextRun + 1
  /\ UNCHANGED <<clearVars, fnVars, chatVars, version, cache, isLoadingDB, nextId, reloads, lastNotification>>

(* handleDelete: v2 stops the project first; every revision then deletes the
   stored record and filters the project out of the collection.  v2's
   handleStop issues its saveProject from inside a setProjects updater, which
   React runs at once when no update is pending and at the next render when
   one is; deleteProjectFromDB is called directly.  The save therefore reaches
   the store before the delete (saveFirst) or after it. *)
handleDelete(id, saveFirst) ==
  /\ ~isLoadingDB
  /\ activeProjectId = NoActive
  /\ Has(projects, id)
  /\ (version # "v2") => saveFirst
  /\ IF version = "v2"
       THEN /\ runs' = Abort(runs, abortControllers, id)
            /\ abortControllers' = Remove(abortControllers, id)
            /\ store' = IF saveFirst
                          THEN deleteProjectFromDB(
                                 UpdatedStore(projects, store, id, StopUpdates), id)
                          ELSE UpdatedStore(projects, deleteProjectFromDB(store, id),
                                            id, StopUpdates)
       ELSE /\ store' = deleteProjectFromDB(store, id)
            /\ UNCHANGED <<clearVars, fnVars, runs, abortControllers>>
  /\ projects' = Filter(projects, id)
  /\ UNCHANGED <<clearVars, fnVars, chatVars, version, cache, isLoadingDB, nextId, nextRun, reloads, lastNotification>>

----------------------------------------------------------------------------
(* Detail view and chat *)

(* Chat messages: text is the number of the turn the message belongs to (the
   question typed in that turn, or the reply to it); the fixed apology the
   earlier revisions append on failure is text 0 *)
UserMsg(n) == [role |-> "user", text |-> n]

ModelMsg(n) == [role |-> "model", text |-> n]

ErrorMsg == [role |-> "model", text |-> 0]

activeProject == Find(projects, activeProjectId)

(* The views offer "view" for completed projects only, and are rendered only
   while no project is active *)
CanView(p) == p.status = "completed"

handleViewProject(id) ==
  /\ ~isLoadingDB
  /\ activeProjectId = NoActive
  /\ Has(projects, id)
  /\ CanView(Find(projects, id))
  /\ activeProjectId' = id
  /\ chatMessages' = IF version = "v2" THEN Find(projects, id).chatHistory ELSE chatMessages
  /\ UNCHANGED <<clearVars, fnVars, version, projects, abortControllers, runs, store, cache, isLoadingDB,
                 nextId, nextRun, reloads, lastNotification, isChatLoading, chat, chatLog>>

(* onBack (v1, v3) / navigateToDashboard (v2) *)
navigateToDashboard ==
  /\ ~isLoadingDB
  /\ activeProjectId # NoActive
  /\ activeProjectId' = NoActive
  /\ chatMessages' = IF version = "v2" THEN <<>> ELSE chatMessages
  /\ UNCHANGED <<clearVars, fnVars, version, projects, abortControllers, runs, store, cache, isLoadingDB,
                 nextId, nextRun, reloads, lastNotification, isChatLoading, chat, chatLog>>

(* The chat panel is rendered for the active project: in v2 only while it is
   completed and has data *)
ChatVisible ==
  /\ activeProjectId # NoActive
  /\ Has(projects, activeProjectId)
  /\ version = "v2" => (activeProject.status = "completed" /\ activeProject.data # NoData)

SetLog(n, outcome) == [chatLog EXCEPT ![n].outcome = outcome]

(* handleChatMessage up to its first await; ChatInterface.handleSubmit calls
   it only while no turn is loading *)
handleChatMessage ==
  /\ ~isLoadingDB
  /\ ChatVisible
  /\ ~isChatLoading
  /\ Len(chatLog) < MaxTurns
  /\ LET n == Len(chatLog) + 1
         currentHistory == IF version = "v2" THEN chatMessages ELSE activeProject.chatHistory
         updatedHistory == Append(currentHistory, UserMsg(n))
         updates == [chatHistory |-> updatedHistory]
     IN /\ projects' = CASE version = "v1" -> MergeById(projects, activeProjectId, updates)
                          [] version = "v2" -> projects
                          [] OTHER -> UpdatedProjects(projects, activeProjectId, updates)
        /\ store' = IF version = "v3"
                      THEN UpdatedStore(projects, store, activeProjectId, updates)
                      ELSE store
        /\ chatMessages' = IF version = "v2" THEN updatedHistory ELSE chatMessages
        /\ chat' = [pc |-> "read", project |-> activeProject, history |-> updatedHistory,
                    turn |-> n]
        /\ chatLog' = Append(chatLog, [pid |-> activeProjectId, outcome |-> "pending"])
  /\ isChatLoading' = TRUE
  /\ UNCHANGED <<clearVars, fnVars, version, abortControllers, runs, cache, isLoadingDB, nextId, nextRun,
                 reloads, lastNotification, activeProjectId>>

(* The catch and finally of handleChatMessage *)
ChatFails ==
  /\ projects' = IF version = "v1"
                   THEN MergeById(projects, chat.project.id,
                                  [chatHistory |-> Append(chat.history, ErrorMsg)])
                   ELSE projects
  /\ chatMessages' = IF version = "v2" THEN Append(chatMessages, ErrorMsg) ELSE chatMessages
  /\ lastNotification' = IF version = "v3" THEN "error: chat failed" ELSE lastNotification
  /\ isChatLoading' = FALSE
  /\ chat' = IdleChat
  /\ chatLog' = SetLog(chat.turn, "failed")
  /\ UNCHANGED store

(* The payload read of the turn settles.  v2's readFileAsBase64 rejects on a
   read error.  v1 and v3 build the promise with reader.onload only: on a
   read error nothing settles it, and the invocation stays at its await for
   ever ("lost") *)
ChatReadReturns(readOk) ==
  /\ chat.pc = "read"
  /\ CASE readOk ->
            /\ chat' = [chat EXCEPT !.pc = "ask"]
            /\ UNCHANGED <<projects, store, chatMessages, lastNotification, isChatLoading,
                           chatLog>>
       [] ~readOk /\ version = "v2" -> ChatFails
       [] OTHER ->
            /\ chat' = [chat EXCEPT !.pc = "lost"]
            /\ UNCHANGED <<projects, store, chatMessages, lastNotification, isChatLoading,
                           chatLog>>
  /\ UNCHANGED <<clearVars, fnVars, version, abortControllers, runs, cache, isLoadingDB, nextId, nextRun,
                 reloads, activeProjectId>>

(* askVideoQuestion settles: with the reply, or by throwing *)
AskReturns(ok) ==
  /\ chat.pc = "ask"
  /\ IF ok
       THEN LET finalHistory == Append(chat.history, ModelMsg(chat.turn))
                updates == [chatHistory |-> finalHistory]
                id == chat.project.id
            IN /\ projects' = MergeById(projects, id, updates)
               /\ store' = IF version = "v1"
                             THEN saveProject(store, Merge(chat.project, updates))
                             ELSE UpdatedStore(projects, store, id, updates)
               /\ chatMessages' = IF version = "v2" THEN finalHistory ELSE chatMessages
               /\ isChatLoading' = FALSE
               /\ chat' = IdleChat
               /\ chatLog' = SetLog(chat.turn, "ok")
               /\ UNCHANGED lastNotification
       ELSE ChatFails
  /\ UNCHANGED <<clearVars, fnVars, version, abortControllers, runs, cache, isLoadingDB, nextId, nextRun,
                 reloads, activeProjectId>>

----------------------------------------------------------------------------
(* The cache key on its own *)

KeyNames == {"clip.mp4", "a", "a_1", "a_1_1"}
KeySizes == {1, 11, 10000000}
KeyDurations == {6, 14, 15, 424}

(* cacheTranscript followed by getCachedTranscript with the same arguments on
   an empty cache: each of them calls generateCacheKey; the call is recorded
   with the key and with what the lookup returns *)
CacheRoundTrip(fileName, fileSize, duration, data) ==
  /\ Len(keyed) < MaxKeyed
  /\ keyed' = Append(keyed,
       [fileName |-> fileName, fileSize |-> fileSize, duration |-> duration,
        key |-> generateCacheKey(fileName, fileSize, duration),
        data |-> data,
        found |-> getCachedTranscript(
                    cacheTranscript(EmptyFn, fileName, fileSize, duration, data),
                    fileName, fileSize, duration)])
  /\ UNCHANGED <<version, projects, abortControllers, runs, store, cache, isLoadingDB,
                 nextId, nextRun, reloads, lastNotification, chatVars, clearVars, analysed>>

KeyNext ==
  \E fileName \in KeyNames, fileSize \in KeySizes, duration \in KeyDurations,
     data \in Results :
    CacheRoundTrip(fileName, fileSize, duration, data)

KeySpec == Init /\ [][KeyNext]_vars

----------------------------------------------------------------------------
(* The timestamps of an analysis.  A timestamp is the sequence of its
   characters. *)

Digits == <<"0", "1", "2", "3", "4", "5", "6", "7", "8", "9">>

IsDigit(c) == \E i \in 1..10 : Digits[i] = c

DigitValue(c) == (CHOOSE i \in 1..10 : Digits[i] = c) - 1

NaN == UndefNum

RECURSIVE Decimal(_)
Decimal(part) ==
  IF part = <<>> THEN 0
  ELSE 10 * Decimal(SubSeq(part, 1, Len(part) - 1)) + DigitValue(part[Len(part)])

(* Number(part) for a part without blanks, sign or point: the empty string is
   0, a digit string its value, anything else NaN *)
Number(part) ==
  IF \A i \in 1..Len(part) : IsDigit(part[i]) THEN Decimal(part) ELSE NaN

(* timestamp.split(':') *)
RECURSIVE Split(_)
Split(timestamp) ==
  IF \A i \in 1..Len(timestamp) : timestamp[i] # ":"
    THEN <<timestamp>>
    ELSE LET k == CHOOSE i \in 1..Len(timestamp) :
                    /\ timestamp[i] = ":"
                    /\ \A j \in 1..(i - 1) : timestamp[j] # ":"
         IN <<SubSeq(timestamp, 1, k - 1)>> \o Split(SubSeq(timestamp, k + 1, Len(timestamp)))

(* A parse that counts the first of three parts as minutes (mutant) *)
parseTimestampHoursAsMinutes(timestamp) ==
  LET parts == [i \in 1..Len(Split(timestamp)) |-> Number(Split(timestamp)[i])]
  IN CASE \E i \in 1..Len(parts) : parts[i] = NaN -> NaN
       [] Len(parts) = 2 -> parts[1] * 60 + parts[2]
       [] Len(parts) = 3 -> parts[1] * 60 + parts[2] * 60 + parts[3]
       [] OTHER -> 0

parseTimestamp(timestamp) ==
  LET parts == [i \in 1..Len(Split(timestamp)) |-> Number(Split(timestamp)[i])]
  IN CASE Len(parts) = 2 /\ parts[1] # NaN /\ parts[2] # NaN -> parts[1] * 60 + parts[2]
       [] Len(parts) = 2 -> NaN
       [] Len(parts) = 3 /\ \A i \in 1..3 : parts[i] # NaN ->
            parts[1] * 3600 + parts[2] * 60 + parts[3]
       [] Len(parts) = 3 -> NaN
       [] OTHER -> 0

(* data.transcript.map / data.chapters.map: { ...item, seconds } *)
Enrich(items) ==
  [i \in 1..Len(items) |->
     [timestamp |-> items[i].timestamp, text |-> items[i].text,
      seconds |-> parseTimestamp(items[i].timestamp)]]

(* The timestamps the gateway is taken to return: MM:SS and HH:MM:SS *)
TwoDigits == {<<"0", "0">>, <<"0", "5">>, <<"1", "0">>, <<"5", "9">>}

Timestamps ==
  {mm \o <<":">> \o ss : mm \in TwoDigits, ss \in TwoDigits}
    \cup {hh \o <<":">> \o mm \o <<":">> \o ss :
            hh \in TwoDigits, mm \in TwoDigits, ss \in TwoDigits}

(* analyzeVideo parses the response text and returns it enriched (one
   response is followed) *)
analyzeVideoEnriches(segment, chapter) ==
  /\ analysed = NoAnalysis
  /\ analysed' = [transcript |-> Enrich(<<[timestamp |-> segment, text |-> "said"]>>),
                  chapters |-> Enrich(<<[timestamp |-> chapter, text |-> "title"]>>)]
  /\ UNCHANGED <<version, projects, abortControllers, runs, store, cache, isLoadingDB,
                 nextId, nextRun, reloads, lastNotification, chatVars, clearVars, keyed>>

StampNext == \E segment \in Timestamps, chapter \in Timestamps : analyzeVideoEnriches(segment, chapter)

StampSpec == Init /\ [][StampNext]_vars

----------------------------------------------------------------------------
(* Failures of the cache store: request.onerror rejects the promise that
   getCachedTranscript / cacheTranscript return without awaiting it, so their
   own try/catch does not see the rejection and the await in startAnalysis
   throws *)

getCachedTranscriptRejects(r) ==
  /\ runs[r].pc = "cacheGet"
  /\ Throw(r, projects, store, StoreError)
  /\ UNCHANGED <<clearVars, fnVars, chatVars, version, cache, isLoadingDB, nextId, nextRun, reloads>>

cacheTranscriptRejects(r) ==
  /\ runs[r].pc = "cachePut"
  /\ Throw(r, projects, store, StoreError)
  /\ UNCHANGED <<clearVars, fnVars, chatVars, version, cache, isLoadingDB, nextId, nextRun, reloads>>

----------------------------------------------------------------------------
(* Progress reports (v2) *)

ReadPercents == {50, 100}

(* onProgress of readFileAsBase64: the reader of run r reports that more of
   the file is loaded; the callback writes Math.round(readPercent * 0.3),
   whatever the status of the project *)
onProgress(r, readPercent) ==
  /\ version = "v2"
  /\ runs[r].pc = "read"
  /\ readPercent > runs[r].loaded
  /\ runs' = SetRun(r, [runs[r] EXCEPT !.loaded = readPercent])
  /\ projects' = MergeById(projects, runs[r].pid, [progress |-> Pct(Round(readPercent * 3))])
  /\ UNCHANGED <<clearVars, fnVars, chatVars, version, abortControllers, store, cache, isLoadingDB,
                 nextId, nextRun, reloads, lastNotification>>

(* The body of the interval callback: p.progress || 30, the step by the
   level reached, capped at 95 *)
NextProgress(progress) ==
  LET current == IF progress = UndefNum \/ progress = 0 THEN Pct(30) ELSE progress
      step == CASE current > Pct(90) -> 5
                [] current > Pct(80) -> 20
                [] current > Pct(60) -> 50
                [] OTHER -> Pct(1)
  IN IF current + step < Pct(95) THEN current + step ELSE Pct(95)

TickProjects(ps, id) ==
  [i \in 1..Len(ps) |->
     IF ps[i].id = id /\ ps[i].status = "processing"
       THEN [ps[i] EXCEPT !.progress = NextProgress(ps[i].progress)]
       ELSE ps[i]]

(* The interval set before analyzeVideo is called fires; it is cleared when
   analyzeVideo settles *)
progressInterval(r) ==
  /\ version = "v2"
  /\ runs[r].pc = "gateway"
  /\ Has(projects, runs[r].pid)
  /\ Find(projects, runs[r].pid).progress < Pct(MaxTickedPercent)
  /\ projects' = TickProjects(projects, runs[r].pid)
  /\ projects' # projects
  /\ UNCHANGED <<clearVars, fnVars, chatVars, version, abortControllers, runs, store, cache, isLoadingDB,
                 nextId, nextRun, reloads, lastNotification>>

----------------------------------------------------------------------------
(* Clear all (v3) *)

(* The ids of a collection in its order *)
IdsOf(ps) == [i \in 1..Len(ps) |-> ps[i].id]

(* SettingsView.handleClearData after the confirmation: handleClearAll of
   this render, with this render's `projects`, is scheduled *)
handleClearData ==
  /\ version = "v3"
  /\ ~isLoadingDB
  /\ activeProjectId = NoActive
  /\ clearAll.pc = "idle"
  /\ clearAll' = [pc |-> "deleting", rest |-> IdsOf(projects)]
  /\ UNCHANGED <<fnVars, chatVars, version, projects, abortControllers, runs, store,
                 cache, isLoadingDB, nextId, nextRun, reloads, lastNotification>>

(* handleClearAll goes on: the store delete it awaits resolves (or, with
   nothing to delete, it is entered); after the last one it empties the
   collection and notifies *)
handleClearAll ==
  /\ clearAll.pc = "deleting"
  /\ store' = IF clearAll.rest = <<>> THEN store
              ELSE deleteProjectFromDB(store, Head(clearAll.rest))
  /\ IF Len(clearAll.rest) <= 1
       THEN /\ projects' = <<>>
            /\ lastNotification' = "success: library cleared"
            /\ clearAll' = IdleClear
       ELSE /\ clearAll' = [clearAll EXCEPT !.rest = Tail(clearAll.rest)]
            /\ UNCHANGED <<projects, lastNotification>>
  /\ UNCHANGED <<fnVars, chatVars, version, abortControllers, runs, cache, isLoadingDB,
                 nextId, nextRun, reloads>>

----------------------------------------------------------------------------
(* The page is reloaded (or the tab crashes and is reopened): memory is lost,
   the IndexedDB stores survive, the outstanding runs and the outstanding
   chat turn die with the page *)
Reload ==
  /\ reloads < MaxReloads
  /\ reloads' = reloads + 1
  /\ projects' = <<>>
  /\ abortControllers' = EmptyFn
  /\ runs' = [r \in RunIds |-> IF Live(r) THEN Ended(r, "dead", "none") ELSE runs[r]]
  /\ isLoadingDB' = TRUE
  /\ lastNotification' = "none"
  /\ activeProjectId' = NoActive
  /\ chatMessages' = <<>>
  /\ isChatLoading' = FALSE
  /\ chat' = IdleChat
  /\ chatLog' = IF chat.pc = "idle" THEN chatLog ELSE SetLog(chat.turn, "dead")
  /\ clearAll' = IdleClear
  /\ UNCHANGED <<fnVars, version, store, cache, nextId, nextRun>>

----------------------------------------------------------------------------
Next ==
  \/ loadProjects
  \/ \E f \in Pickable : handleFileSelectRejected(f)
  \/ \E f \in Pickable, d \in Durations : handleFileSelect(f, d)
  \/ \E r \in RunIds : CacheGetReturns(r)
  \/ \E r \in RunIds, readOk \in BOOLEAN : ReadReturns(r, readOk)
  \/ \E r \in RunIds, response \in GatewayResponses, result \in Results,
        elapsed \in ElapsedTimes : GatewayReturns(r, response, result, elapsed)
  \/ \E r \in RunIds : CachePutReturns(r)
  \/ \E id \in Ids : handleStop(id)
  \/ \E id \in Ids : handleCancel(id)
  \/ \E id \in Ids : handleRetry(id)
  \/ \E id \in Ids, saveFirst \in BOOLEAN : handleDelete(id, saveFirst)
  \/ Reload

Spec == Init /\ [][Next]_vars

(* The orchestrator together with the detail view and the chat, in sessions
   of at most MaxChatRuns analysis runs *)
ChatNext ==
  \/ (Next /\ nextRun' <= MaxChatRuns)
  \/ \E id \in Ids : handleViewProject(id)
  \/ navigateToDashboard
  \/ handleChatMessage
  \/ \E readOk \in BOOLEAN : ChatReadReturns(readOk)
  \/ \E ok \in BOOLEAN : AskReturns(ok)

ChatSpec == Init /\ [][ChatNext]_vars

(* The orchestrator together with the progress reports of the payload read
   and of the interval, in sessions of at most MaxTickRuns analysis runs *)
TickNext ==
  \/ (Next /\ nextRun' <= MaxTickRuns)
  \/ \E r \in RunIds, readPercent \in ReadPercents : onProgress(r, readPercent)
  \/ \E r \in RunIds : progressInterval(r)

TickSpec == Init /\ [][TickNext]_vars

(* The orchestrator together with clear-all, in sessions of at most
   MaxClearRuns analysis runs *)
ClearNext ==
  \/ (Next /\ nextRun' <= MaxClearRuns)
  \/ handleClearData
  \/ handleClearAll

ClearSpec == Init /\ [][ClearNext]_vars

(* The orchestrator with a cache store whose requests can fail, in sessions
   of at most MaxFaultRuns analysis runs *)
FaultNext ==
  \/ (Next /\ nextRun' <= MaxFaultRuns)
  \/ \E r \in RunIds : getCachedTranscriptRejects(r)
  \/ \E r \in RunIds : cacheTranscriptRejects(r)

FaultSpec == Init /\ [][FaultNext]_vars

----------------------------------------------------------------------------
(* Fairness: every await of a run settles (the payload read, the gateway
   call and the IndexedDB requests return or throw), and the startup load
   runs.  The user's actions and the reload are not fair. *)

RunStep ==
  \/ \E r \in RunIds : CacheGetReturns(r)
  \/ \E r \in RunIds, readOk \in BOOLEAN : ReadReturns(r, readOk)
  \/ \E r \in RunIds, response \in GatewayResponses, result \in Results,
        elapsed \in ElapsedTimes : GatewayReturns(r, response, result, elapsed)
  \/ \E r \in RunIds : CachePutReturns(r)

FairSpec == Spec /\ WF_vars(RunStep) /\ WF_vars(loadProjects)

(* The awaits of a chat turn settle too *)
ChatStep ==
  \/ \E readOk \in BOOLEAN : ChatReadReturns(readOk)
  \/ \E ok \in BOOLEAN : AskReturns(ok)

ChatFairSpec == ChatSpec /\ WF_vars(ChatStep) /\ WF_vars(RunStep) /\ WF_vars(loadProjects)

----------------------------------------------------------------------------
(* Claims *)

Processing(id) == Has(projects, id) /\ Find(projects, id).status = "processing"

(* C1: every accepted submission adds one project whose status eventually
   leaves 'processing'.  Stated so that a finite run refutes it: a project
   that is 'processing' always has a run of its own that has not settled yet;
   when no such run is left, nothing the orchestrator does on its own will
   ever move the project out of 'processing'. *)
C1_ProcessingHasLiveRun ==
  \A id \in Ids : Processing(id) => \E r \in RunsOf(id) : Live(r)

MarkedCancelled(p) ==
  \/ p.status = "cancelled"
  \/ p.status = "failed" /\ p.error = "Transcription cancelled"

(* The step in which the gateway request of run r settles *)
GatewaySettles(r) == runs[r].pc = "gateway" /\ runs'[r].pc \notin {"gateway", "dead"}

(* C2: when the token of a run was signaled before its gateway request
   settles, the run ends there with the Cancel transition, and the project, if
   still in the collection, is left cancelled (or failed with the cancelled
   reason), never completed, whatever the gateway returned or threw. *)
C2_CancelBeforeGatewayResolves ==
  [][\A r \in RunIds :
       (GatewaySettles(r) /\ runs[r].aborted) =>
          /\ runs'[r].pc = "done"
          /\ runs'[r].outcome = "cancelled"
          /\ Has(projects', runs[r].pid) => MarkedCancelled(Find(projects', runs[r].pid))]_vars

(* C2 witness: a run that called the gateway, was signaled while the request
   was outstanding, and has left its project marked cancelled *)
C2_Witness ==
  \E r \in RunIds :
    /\ runs[r].pc = "done" /\ runs[r].called /\ runs[r].outcome = "cancelled"
    /\ Has(projects, runs[r].pid) /\ MarkedCancelled(Find(projects, runs[r].pid))

(* The step in which run r ends by applying the Complete transition to its
   project: status completed, data set *)
AppliesComplete(r) ==
  /\ Live(r)
  /\ runs'[r].pc = "done"
  /\ runs'[r].outcome \in {"completed", "cached"}
  /\ Has(projects', runs[r].pid)
  /\ Find(projects', runs[r].pid).status = "completed"
  /\ Find(projects', runs[r].pid).data # NoData

(* C3: at every suspension point, the cache lookup and the cache write
   included, a cancel wins: a run whose token has been signaled never applies
   the Complete transition. *)
C3_NoCompleteAfterSignal ==
  [][\A r \in RunIds : runs[r].aborted => ~AppliesComplete(r)]_vars

SameFingerprint(p, q) ==
  /\ Truthy(p.duration) /\ Truthy(q.duration)
  /\ generateCacheKey(p.fileName, p.fileSize, p.duration)
       = generateCacheKey(q.fileName, q.fileSize, q.duration)

GatewayCalls(ids) == Cardinality({r \in StartedRuns : runs[r].pid \in ids /\ runs[r].called})

(* C4: two submissions with the same fingerprint (known duration), the second
   made after the first completed or while it is processing, cost one gateway
   call in total, and the second completes with processingTime = 0.  Stated
   for the revision that has the transcript cache, on two projects that have
   each had one run and neither failed nor was cancelled. *)
C4_CacheIdempotence ==
  \A i, j \in 1..Len(projects) :
    LET p == projects[i]
        q == projects[j]
    IN (/\ version = "v2"
        /\ p.id < q.id
        /\ SameFingerprint(p, q)
        /\ p.status \in {"processing", "completed"}
        /\ q.status \in {"processing", "completed"}
        /\ Cardinality(RunsOf(p.id)) = 1 /\ Cardinality(RunsOf(q.id)) = 1)
       => /\ GatewayCalls({p.id, q.id}) <= 1
          /\ (p.status = "completed" /\ q.status = "completed") => q.processingTime = 0

(* The runs of project id whose analyzeVideo call is outstanding *)
InFlight(id) == {r \in RunsOf(id) : runs[r].pc = "gateway"}

(* C5: at most one analysis run (one outstanding analyzeVideo call) exists per
   project id at any time, under every sequence of submit, cancel/stop, retry
   and delete. *)
C5_AtMostOneInFlight ==
  \A id \in Ids : Cardinality(InFlight(id)) <= 1

NonTerminal(p) == p.status \in {"processing", "queued"}

(* C6: every project of the collection that is processing or queued has a
   cancellation token registered under its id, and that token is the one its
   current run (the latest startAnalysis of that id) created. *)
C6_NonTerminalOwnsToken ==
  \A i \in 1..Len(projects) :
    NonTerminal(projects[i]) =>
      /\ projects[i].id \in DOMAIN abortControllers
      /\ RunsOf(projects[i].id) # {}
      /\ abortControllers[projects[i].id] = CurrentRun(projects[i].id)

(* C6 witness: a project is processing under its second run (a retry), so the
   token registered for it had to be replaced by the retry's *)
C6_Witness ==
  \E i \in 1..Len(projects) :
    /\ NonTerminal(projects[i])
    /\ Cardinality(RunsOf(projects[i].id)) >= 2
    /\ \E r \in RunsOf(projects[i].id) : r # CurrentRun(projects[i].id) /\ Live(r)

InterruptedReasons ==
  {"Analysis interrupted", "Analysis interrupted by page reload", "Session interrupted"}

(* The step in which the startup load finishes *)
LoadFinishes == isLoadingDB /\ ~isLoadingDB'

(* C7: the startup load puts every stored project that is processing or queued
   into memory as failed with an 'interrupted' reason and writes that record
   back; when the load has finished, no project in memory and no stored record
   is processing or queued. *)
C7_LoadReconciles ==
  [][LoadFinishes =>
       /\ \A id \in DOMAIN store :
            NonTerminal(store[id]) =>
              /\ Has(projects', id)
              /\ Find(projects', id).status = "failed"
              /\ Find(projects', id).error \in InterruptedReasons
              /\ id \in DOMAIN store'
              /\ store'[id] = Find(projects', id)
       /\ \A i \in 1..Len(projects') : ~NonTerminal(projects'[i])
       /\ \A id \in DOMAIN store' : ~NonTerminal(store'[id])]_vars

(* C7 witness: after a reload that interrupted a run, the load has finished
   and the project is failed with the interrupted reason in memory and in the
   store *)
C7_Witness ==
  /\ ~isLoadingDB
  /\ reloads >= 1
  /\ \E i \in 1..Len(projects) :
       /\ projects[i].status = "failed"
       /\ projects[i].error \in InterruptedReasons
       /\ \E r \in RunsOf(projects[i].id) : runs[r].pc = "dead"
       /\ projects[i].id \in DOMAIN store
       /\ store[projects[i].id] = projects[i]

HasData(p) == p.data # NoData

HasError(p) == p.error # Undefined

(* C8: for every project, data is set exactly when the status is completed
   and error is set exactly when the status is failed. *)
C8_DataAndErrorFollowStatus ==
  \A i \in 1..Len(projects) :
    /\ HasData(projects[i]) <=> projects[i].status = "completed"
    /\ HasError(projects[i]) <=> projects[i].status = "failed"

(* The step is a retry of project id: a new run is started for a project
   that is already in the collection *)
RetryStep(id) ==
  /\ Has(projects, id)
  /\ nextRun' = nextRun + 1
  /\ runs'[nextRun'].pid = id

LifecycleEdge(id, from, to) ==
  \/ from = "queued" /\ to = "processing"
  \/ from = "processing" /\ to \in {"completed", "failed", "cancelled"}
  \/ from \in {"failed", "cancelled"} /\ to = "processing" /\ RetryStep(id)

(* C9: every change of a project's status is a lifecycle edge: processing to
   completed, failed or cancelled, and failed or cancelled to processing by a
   retry only; a completed project never changes status, and nothing but a
   retry changes the status of a completed, failed or cancelled project. *)
C9_LifecycleEdgesOnly ==
  [][\A id \in Ids :
       (Has(projects, id) /\ Has(projects', id)
          /\ Find(projects, id).status # Find(projects', id).status)
       => LifecycleEdge(id, Find(projects, id).status, Find(projects', id).status)]_vars

(* A project with the three fields a retry may change blanked out *)
RetryFrame(p) == [p EXCEPT !.status = "any", !.progress = 0, !.error = Undefined]

(* C10: a retry of a failed or cancelled project sets status to processing,
   progress to a small positive value and clears error, leaves every other
   field (id, fileName, file, chatHistory among them) as it was, and the run
   it starts works on the same payload and metadata. *)
C10_RetryFrame ==
  [][\A id \in Ids :
       (RetryStep(id) /\ Find(projects, id).status \in {"failed", "cancelled"})
       => LET before == Find(projects, id)
              after == Find(projects', id)
              started == runs'[nextRun'].project
          IN /\ after.status = "processing"
             /\ after.progress > 0 /\ after.progress < Pct(45)
             /\ after.error = Undefined
             /\ RetryFrame(after) = RetryFrame(before)
             /\ started.id = before.id
             /\ started.file = before.file
             /\ started.fileName = before.fileName
             /\ started.fileSize = before.fileSize
             /\ started.duration = before.duration]_vars

(* The step removes project id from the collection while the page stays up:
   a delete *)
DeleteStep(id) == Has(projects, id) /\ ~Has(projects', id) /\ ~isLoadingDB'

(* C11: deleting a project that is processing signals the cancellation token
   registered for it as part of the delete. *)
C11_DeleteAbortsRun ==
  [][\A id \in Ids :
       (DeleteStep(id) /\ Find(projects, id).status = "processing")
       => /\ id \in DOMAIN abortControllers
          /\ runs'[abortControllers[id]].aborted]_vars

(* Project id was submitted, is in neither the collection nor the store, and
   the page is up: it was deleted, or lost with a reload before any save *)
Gone(id) ==
  /\ id <= nextId
  /\ ~isLoadingDB
  /\ ~Has(projects, id)
  /\ id \notin DOMAIN store

(* C12: once handleDelete(id) has been issued the project does not come
   back: the delete leaves no record of the id in the store, and no later
   step puts a record with that id into the collection or the store. *)
C12_DeletedStaysDeleted ==
  [][\A id \in Ids :
       /\ DeleteStep(id) => id \notin DOMAIN store'
       /\ Gone(id) => (~Has(projects', id) /\ id \notin DOMAIN store')]_vars

(* The chat turns sent for project id *)
TurnsOf(id) == {n \in 1..Len(chatLog) : chatLog[n].pid = id}

(* The history of project id when each of its turns up to n succeeded: the
   question and the reply of each turn, in the order the turns were sent *)
RECURSIVE ExpectedHistory(_, _)
ExpectedHistory(id, n) ==
  IF n = 0 THEN <<>>
  ELSE IF chatLog[n].pid = id
         THEN ExpectedHistory(id, n - 1) \o <<UserMsg(n), ModelMsg(n)>>
         ELSE ExpectedHistory(id, n - 1)

(* C13: a project that completed with an empty chatHistory (by its only run)
   and whose N chat turns so far all succeeded has a chatHistory of exactly
   those N questions and replies, alternating user, model in the order sent,
   in memory and in the stored record. *)
C13_ChatHistoryIsTheTurns ==
  \A i \in 1..Len(projects) :
    LET p == projects[i]
    IN (/\ p.status = "completed"
        /\ Cardinality(RunsOf(p.id)) = 1
        /\ \A n \in TurnsOf(p.id) : chatLog[n].outcome = "ok")
       => /\ p.chatHistory = ExpectedHistory(p.id, Len(chatLog))
          /\ p.id \in DOMAIN store
               => store[p.id].chatHistory = ExpectedHistory(p.id, Len(chatLog))

(* The step in which the outstanding chat turn ends in failure *)
ChatFailStep ==
  /\ chat.pc # "idle"
  /\ chat'.pc = "idle"
  /\ chatLog'[chat.turn].outcome = "failed"

IsPrefix(s, t) == Len(s) <= Len(t) /\ SubSeq(t, 1, Len(s)) = s

(* C14: when a chat turn fails, the history the turn started from with the
   user's message appended (updatedHistory) is still the beginning of the
   project's chatHistory, in memory and in the stored record, and the
   project's status, data and error are as they were. *)
C14_FailedTurnKeepsUserMessage ==
  [][(ChatFailStep /\ Has(projects, chat.project.id))
     => LET id == chat.project.id
        IN /\ Has(projects', id)
           /\ IsPrefix(chat.history, Find(projects', id).chatHistory)
           /\ id \in DOMAIN store' => IsPrefix(chat.history, store'[id].chatHistory)
           /\ Find(projects', id).status = Find(projects, id).status
           /\ Find(projects', id).data = Find(projects, id).data
           /\ Find(projects', id).error = Find(projects, id).error]_vars

(* The step emits the "file too large" notification *)
RejectStep ==
  /\ lastNotification' = "error: file too large"
  /\ lastNotification # "error: file too large"

WithinCeiling(p) == p.fileSize <= MAX_FILE_SIZE

(* C15: in the revision with the size ceiling, the step that rejects a file
   larger than MAX_FILE_SIZE changes nothing but the notification, and no
   step ever puts a project of such a file into the collection, the store or
   a run (no token, no gateway call for it). *)
C15_TooLargeRejected ==
  [][/\ RejectStep =>
          UNCHANGED <<clearVars, fnVars, projects, store, cache, abortControllers, runs, nextId, nextRun>>
     /\ version = "v3" =>
          /\ \A i \in 1..Len(projects') : WithinCeiling(projects'[i])
          /\ \A id \in DOMAIN store' : WithinCeiling(store'[id])
          /\ \A r \in RunIds : WithinCeiling(runs'[r].project)]_vars

(* C15 witness: a file above the ceiling has been rejected and nothing has
   been created *)
C15_Witness ==
  /\ lastNotification = "error: file too large"
  /\ nextId = 0 /\ nextRun = 0
  /\ projects = <<>> /\ store = EmptyFn /\ abortControllers = EmptyFn

(* The step in which the payload read of run r fails: the run ends at its
   read with the Fail transition *)
ReadFails(r) ==
  /\ runs[r].pc = "read"
  /\ runs'[r].pc = "done"
  /\ runs'[r].outcome = "failed"

(* C16: a failure to read the payload commits nothing: the step that
   detects it leaves the collection and the store as they were (no project
   created, no status advanced); it only reports. *)
C16_ReadFailureCommitsNothing ==
  [][\A r \in RunIds : ReadFails(r) => UNCHANGED <<clearVars, fnVars, projects, store>>]_vars

(* The step in which run r ends with the Fail transition, and the error its
   catch block received: the reader's error event when the run was at its
   read, else the gateway's error *)
FailStep(r) ==
  /\ Live(r)
  /\ runs'[r].pc = "done"
  /\ runs'[r].outcome = "failed"

Thrown(r) == IF runs[r].pc = "read" THEN ReadError ELSE GatewayError

(* C17: an error other than cancellation that ends a run leaves the run's
   project failed, with the error's message as its reason and progress 0,
   with that record in the store, and with an error notification emitted. *)
C17_FailTransition ==
  [][\A r \in RunIds :
       (FailStep(r) /\ Has(projects, runs[r].pid)) =>
         LET id == runs[r].pid
             p == Find(projects', id)
         IN /\ Has(projects', id)
            /\ p.status = "failed"
            /\ p.error = Thrown(r).message
            /\ p.progress = 0
            /\ id \in DOMAIN store'
            /\ store'[id] = p
            /\ lastNotification' = "error: failed"]_vars

(* The step in which run r ends and leaves its project with the cancelled
   marking *)
EndsCancelled(r) ==
  /\ Live(r)
  /\ runs'[r].pc = "done"
  /\ projects' # projects
  /\ Has(projects', runs[r].pid)
  /\ MarkedCancelled(Find(projects', runs[r].pid))

(* C18: the cancelled marking tells a user's cancellation from a gateway
   failure: a run gives its project the cancelled marking only when the
   token of that run was signaled. *)
C18_CancelledMarkingMeansUserCancelled ==
  [][\A r \in RunIds : EndsCancelled(r) => runs[r].aborted]_vars

(* The ids whose record a step changes *)
ChangedIds == {projects[i].id : i \in {j \in 1..Len(projects) : projects'[j] # projects[j]}}

(* A step that updates records: not a load or a reload, and neither a
   submission nor a deletion, which change the length of the collection *)
UpdateStep == ~isLoadingDB /\ ~isLoadingDB' /\ Len(projects') = Len(projects)

(* C19: an update made on behalf of a project replaces only the record with
   that project's id: the order of the ids is unchanged, at most one record
   changes, a step of a run changes only the record of the run's project,
   and a step of a chat turn only the record of the turn's project. *)
C19_MergeByIdFrame ==
  [][UpdateStep =>
       /\ IdsOf(projects') = IdsOf(projects)
       /\ Cardinality(ChangedIds) <= 1
       /\ \A r \in RunIds :
            (Live(r) /\ runs'[r].pc # runs[r].pc) => ChangedIds \subseteq {runs[r].pid}
       /\ chat' # chat => ChangedIds \subseteq {chat.project.id, chat'.project.id}]_vars

(* C19 witness: two projects in the collection, the run of the one submitted
   later has completed it while the run of the earlier one is still waiting
   for the gateway, and the earlier record is untouched by that completion *)
C19_Witness ==
  \E r1, r2 \in RunIds :
    /\ r1 < r2 /\ runs[r1].pid # runs[r2].pid
    /\ runs[r1].pc = "gateway" /\ ~runs[r1].aborted
    /\ runs[r2].pc = "done" /\ runs[r2].outcome = "completed"
    /\ Has(projects, runs[r1].pid) /\ Has(projects, runs[r2].pid)
    /\ Find(projects, runs[r1].pid).status = "processing"
    /\ Find(projects, runs[r1].pid).data = NoData
    /\ Find(projects, runs[r2].pid).status = "completed"

(* What the cache holds for the fingerprint of the project run r was started
   for, and the step in which the cache lookup of run r resolves with a hit *)
CachedFor(r) ==
  getCachedTranscript(cache, runs[r].project.fileName, runs[r].project.fileSize,
                      runs[r].project.duration)

CacheHitStep(r) ==
  /\ runs[r].pc = "cacheGet"
  /\ CachedFor(r) # NoData
  /\ runs'[r].pc \notin {"cacheGet", "dead"}

(* C20: when the cache lookup of a run started for a project with a known
   duration finds an entry, the run ends there without having read the
   payload or called the gateway, and the project, if still in the
   collection, is completed with the cached result and processingTime 0. *)
C20_CacheHitCompletes ==
  [][\A r \in RunIds :
       CacheHitStep(r) =>
         /\ Truthy(runs[r].project.duration)
         /\ runs'[r].pc = "done"
         /\ runs'[r].outcome = "cached"
         /\ ~runs'[r].called
         /\ Has(projects, runs[r].pid) =>
              LET p == Find(projects', runs[r].pid)
              IN /\ p.status = "completed"
                 /\ p.data = CachedFor(r)
                 /\ p.processingTime = 0]_vars

(* C20 witness: a run that ended on a cache hit, never having called the
   gateway, with its project completed from the cache *)
C20_Witness ==
  \E r \in RunIds :
    /\ runs[r].pc = "done" /\ runs[r].outcome = "cached" /\ ~runs[r].called
    /\ Has(projects, runs[r].pid)
    /\ Find(projects, runs[r].pid).status = "completed"
    /\ Find(projects, runs[r].pid).data \in Results
    /\ Find(projects, runs[r].pid).processingTime = 0

(* The step in which run r writes its cache entry: the run waited for
   cacheTranscript after a gateway call that returned a result, and the
   cache gains exactly the entry for the fingerprint of its project *)
WritesEntry(r) ==
  /\ runs[r].pc = "cachePut"
  /\ runs[r].called
  /\ runs[r].result \in Results
  /\ Truthy(runs[r].project.duration)
  /\ runs'[r].pc = "done"
  /\ runs'[r].outcome = "completed"
  /\ cache' = cacheTranscript(cache, runs[r].project.fileName, runs[r].project.fileSize,
                              runs[r].project.duration, runs[r].result)

(* C21: the cache changes only when a run whose inference succeeded, for a
   project of known duration, writes its entry, which it does as its last
   step (so once, and never a run that failed, was cancelled or was served
   from the cache); no step removes an entry. *)
C21_CacheWrittenOnlyOnSuccess ==
  [][/\ cache' # cache => \E r \in RunIds : WritesEntry(r)
     /\ DOMAIN cache \subseteq DOMAIN cache']_vars

(* C21 witness: the cache holds the entry a completed run wrote, next to a
   run of the same fingerprint that failed and one that was cancelled *)
C21_Witness ==
  \E r \in RunIds :
    /\ runs[r].pc = "done" /\ runs[r].outcome = "completed" /\ runs[r].called
    /\ cache # EmptyFn
    /\ \E q \in RunIds : runs[q].pc = "done" /\ runs[q].outcome \in {"failed", "cancelled"}

(* A project is processing before and after the step *)
StaysProcessing(id) ==
  /\ ~isLoadingDB /\ ~isLoadingDB'
  /\ Has(projects, id) /\ Has(projects', id)
  /\ Find(projects, id).status = "processing"
  /\ Find(projects', id).status = "processing"

(* C22: while a project is processing its progress is a whole number of
   percent between 0 and 100, below 100, and no step lowers it. *)
C22_ProgressWhileProcessing ==
  [][\A id \in Ids :
       StaysProcessing(id) =>
         LET before == Find(projects, id).progress
             after == Find(projects', id).progress
         IN /\ after % Pct(1) = 0
            /\ after >= 0 /\ after < Pct(100)
            /\ after >= before]_vars

(* C23: a failure of the cache store does not change how a run ends: a run
   that ends while waiting for its cache write (its inference succeeded)
   ends by completing its project, and a run that ends at its cache lookup
   ends on a hit, never with the Fail transition. *)
C23_StoreFailureDoesNotFailRun ==
  [][\A r \in RunIds :
       /\ (runs[r].pc = "cachePut" /\ runs'[r].pc = "done") =>
            /\ runs'[r].outcome = "completed"
            /\ Has(projects, runs[r].pid) =>
                 Find(projects', runs[r].pid).status = "completed"
       /\ (runs[r].pc = "cacheGet" /\ runs'[r].pc = "done") =>
            runs'[r].outcome = "cached"]_vars

(* Nothing is outstanding: the startup load is over, no run is live and no
   chat turn is in flight *)
Settled ==
  /\ ~isLoadingDB
  /\ \A r \in RunIds : ~Live(r)
  /\ chat.pc = "idle"

(* The store holds the record that project id has in memory *)
Stored(ps, st, id) == id \in DOMAIN st /\ st[id] = Find(ps, id)

(* The step changes the record of id in the collection *)
Mutates(id) ==
  /\ ~isLoadingDB /\ ~isLoadingDB'
  /\ Has(projects, id) /\ Has(projects', id)
  /\ Find(projects', id) # Find(projects, id)

(* C24: every step that changes a project's record in memory writes the
   resulting record to the store, and whenever everything has settled the
   store holds, for every project of the collection, the record that is in
   memory. *)
C24_WriteThrough ==
  [][/\ \A id \in Ids : Mutates(id) => Stored(projects', store', id)
     /\ Settled' => \A i \in 1..Len(projects') : Stored(projects', store', projects'[i].id)]_vars

(* The whole second nearest to a duration given in tenths of a second (a
   half rounds up) *)
Nearest(tenths) ==
  CHOOSE n \in 0..((tenths \div 10) + 1) : 10 * n - 5 <= tenths /\ tenths < 10 * n + 5

SameInputs(a, b) ==
  /\ a.fileName = b.fileName
  /\ a.fileSize = b.fileSize
  /\ Nearest(a.duration) = Nearest(b.duration)

(* C25: two calls of generateCacheKey give the same key exactly when file
   name, byte size and duration rounded to the nearest second agree;
   clip.mp4 of 10000000 bytes and 42.4 s gets clip.mp4_10000000_42; and a
   lookup with the arguments of a write finds what was written. *)
C25_CacheKey ==
  \A i, j \in 1..Len(keyed) :
    /\ (keyed[i].key = keyed[j].key) <=> SameInputs(keyed[i], keyed[j])
    /\ (keyed[i].fileName = "clip.mp4" /\ keyed[i].fileSize = 10000000
           /\ keyed[i].duration = 424) => keyed[i].key = "clip.mp4_10000000_42"
    /\ keyed[i].found = keyed[i].data

(* C25 witness: two calls that differ only in the duration, 0.6 s and 1.4 s,
   both nearest to 1 s, got the one key a_1_11_1 *)
C25_Witness ==
  /\ Len(keyed) = 2
  /\ keyed[1].duration = 6 /\ keyed[2].duration = 14
  /\ keyed[1].fileName = "a_1" /\ keyed[2].fileName = "a_1"
  /\ keyed[1].fileSize = 11 /\ keyed[2].fileSize = 11
  /\ keyed[1].key = keyed[2].key
  /\ keyed[1].key = "a_1_11_1"

(* The second count of MM:SS or HH:MM:SS read off the positions of its
   digits *)
Field(timestamp, i) == 10 * DigitValue(timestamp[i]) + DigitValue(timestamp[i + 1])

SecondCount(timestamp) ==
  IF Len(timestamp) = 5
    THEN 60 * Field(timestamp, 1) + Field(timestamp, 4)
    ELSE 3600 * Field(timestamp, 1) + 60 * Field(timestamp, 4) + Field(timestamp, 7)

(* C26: every transcript segment and every chapter of a returned analysis
   carries the second count of its timestamp: 60*MM+SS for MM:SS,
   3600*HH+60*MM+SS for HH:MM:SS, 5 for 00:05 and 0 for 00:00. *)
C26_SecondsOfTimestamp ==
  /\ \A i \in 1..Len(analysed.transcript) :
       analysed.transcript[i].seconds = SecondCount(analysed.transcript[i].timestamp)
  /\ \A i \in 1..Len(analysed.chapters) :
       analysed.chapters[i].seconds = SecondCount(analysed.chapters[i].timestamp)

(* C26 witness: a segment at 10:05:59 with 36359 seconds and a chapter at
   00:05 with 5 seconds *)
C26_Witness ==
  /\ Len(analysed.transcript) = 1 /\ Len(analysed.chapters) = 1
  /\ analysed.transcript[1].timestamp = <<"1", "0", ":", "0", "5", ":", "5", "9">>
  /\ analysed.transcript[1].seconds = 36359
  /\ analysed.chapters[1].timestamp = <<"0", "0", ":", "0", "5">>
  /\ analysed.chapters[1].seconds = 5

(* The step in which the gateway call of run r, whose token was signaled,
   settles and the run ends, while a run started later for the same project
   is live *)
EndsBehind(r, q) ==
  /\ q > r
  /\ runs[r].pc = "gateway" /\ runs[r].aborted /\ runs'[r].pc = "done"
  /\ Live(q) /\ runs[q].pid = runs[r].pid
  /\ Has(projects, runs[r].pid)

(* C27: when a stopped run ends while a newer run of the same project is
   live, it leaves the project's status and progress as the newer run set them and
   leaves the newer run's entry in abortControllers. *)
C27_StaleRunLeavesNewerRun ==
  [][\A r, q \in RunIds :
       EndsBehind(r, q) =>
         LET id == runs[r].pid
         IN /\ Has(projects', id)
            /\ Find(projects', id).status = Find(projects, id).status
            /\ Find(projects', id).progress = Find(projects, id).progress
            /\ (id \in DOMAIN abortControllers /\ abortControllers[id] = q) =>
                 (id \in DOMAIN abortControllers' /\ abortControllers'[id] = q)]_vars

(* The step in which handleClearAll finishes *)
ClearFinishes == clearAll.pc = "deleting" /\ clearAll'.pc = "idle" /\ ~isLoadingDB'

(* C28: when handleClearAll has finished, the collection and the store hold
   the same set of project ids. *)
C28_ClearAllLeavesNoOrphan ==
  [][ClearFinishes =>
       {projects'[i].id : i \in 1..Len(projects')} = DOMAIN store']_vars

(* C29: whenever a chat turn has set isChatLoading, isChatLoading is cleared
   again later, whether the payload read and the chat call succeed or fail. *)
C29_ChatLoadingClears == isChatLoading ~> ~isChatLoading

(* C30: the startup load leaves every stored project that is completed,
   failed or cancelled as it is: it comes into memory equal to its stored
   record and its stored record is not rewritten; the load adds and removes
   no record, so a second load finds nothing to change. *)
C30_LoadLeavesTerminalProjects ==
  [][LoadFinishes =>
       /\ DOMAIN store' = DOMAIN store
       /\ Len(projects') = Cardinality(DOMAIN store)
       /\ \A id \in DOMAIN store :
            ~NonTerminal(store[id]) =>
              /\ Has(projects', id)
              /\ Find(projects', id) = store[id]
              /\ store'[id] = store[id]]_vars

(* C30 witness: a reload, with nothing notified since, and the load has
   brought back a completed project and a project failed by the gateway,
   both as they are stored, the failed one with the reason it had *)
C30_Witness ==
  /\ ~isLoadingDB
  /\ reloads >= 1
  /\ lastNotification = "none"
  /\ \E i, j \in 1..Len(projects) :
       /\ projects[i].status = "completed" /\ projects[i].data \in Results
       /\ projects[i].progress = Pct(100)
       /\ projects[j].status = "failed" /\ projects[j].error = GatewayError.message
       /\ Stored(projects, store, projects[i].id)
       /\ Stored(projects, store, projects[j].id)

====
